---- MODULE Spec2Model ----
(***************************************************************************)
(* Model of impactutils.io.smcontainers: HDFContainerBase,                 *)
(* ShakeMapContainerBase and ShakeMapOutputContainer.                      *)
(*                                                                         *)
(* The open h5py file (self._hdfobj) is a tree: a function from paths      *)
(* (sequences of member names) to nodes, a node being a group or a         *)
(* dataset with data and attributes.  A Python dict is the set of its      *)
(* <<key, value>> items; a '/'-joined path string "a/b" is the sequence    *)
(* <<"a", "b">>; the list of paths _getGroupPaths builds is a bag (each    *)
(* path with the number of times it is in the list); a list of the keys of *)
(* one group is the set of its members.                                    *)
(* Every method is an operator from the tree (and the arguments) to a      *)
(* result [f, exc, ret]: the tree the call leaves behind, the exception it *)
(* raised ("None" when it returned) and the value it returned.             *)
(***************************************************************************)
EXTENDS Integers, Sequences, FiniteSets, Bags, TLC

VARIABLES hdfobj, last

vars == <<hdfobj, last>>

\* Arrays handed to the IMT writes have 1..MaxLen elements.
MaxLen == 2

None == "None"

---------------------------------------------------------------------------
(* The h5py primitives the container uses. *)

GroupNode == [kind |-> "group", data |-> <<>>, attrs |-> {}]

DatasetNode(data, attrs) == [kind |-> "dataset", data |-> data, attrs |-> attrs]

Result(f, exc, ret) == [f |-> f, exc |-> exc, ret |-> ret]

\* `name in group`
Contains(f, group, name) == Append(group, name) \in DOMAIN f

\* group.keys()
Keys(f, group) ==
    {p[Len(p)] : p \in {q \in DOMAIN f :
                          /\ Len(q) = Len(group) + 1
                          /\ \A i \in 1 .. Len(group) : q[i] = group[i]}}

IsPrefix(p, q) == Len(p) <= Len(q) /\ \A i \in 1 .. Len(p) : q[i] = p[i]

\* group.create_group(name) / group.create_dataset(name, ...) on a free name
Create(f, path, node) == (path :> node) @@ f

\* del group[name]: the member and everything below it
Delete(f, path) == [p \in {q \in DOMAIN f : ~IsPrefix(path, q)} |-> f[p]]

---------------------------------------------------------------------------
(* json.dumps(d).encode('utf-8') and json.loads(bytes.decode('utf-8')) on  *)
(* flat dictionaries of strings: the blob is the sequence of JSON tokens.  *)

RECURSIVE JsonItems(_)
JsonItems(d) ==
    IF d = {} THEN <<>>
    ELSE LET kv == CHOOSE x \in d : TRUE
             rest == d \ {kv}
         IN  <<kv[1], ":", kv[2]>>
               \o (IF rest = {} THEN <<>> ELSE <<",">> \o JsonItems(rest))

JsonDumps(d) == <<"{">> \o JsonItems(d) \o <<"}">>

JsonLoads(s) ==
    {<<s[2 + 4 * j], s[4 + 4 * j]>> : j \in 0 .. ((Len(s) - 1) \div 4) - 1}

\* A dictionary value of a type json.dumps cannot encode (a datetime).
Unsupported == "datetime"

\* json.dumps(d) returns: it raises TypeError on a value it cannot encode.
JsonSerializable(d) == \A kv \in d : kv[2] /= Unsupported

\* instring.encode('utf-8') and bytes.decode('utf-8'): the blob is the text
\* under its encoding.
Utf8Encode(instring) == <<"utf-8", instring>>

Utf8Decode(inbytes) == inbytes[2]

\* d[key]
DictGet(d, key) ==
    IF \E kv \in d : kv[1] = key
    THEN [exc |-> None, ret |-> (CHOOSE kv \in d : kv[1] = key)[2]]
    ELSE [exc |-> "KeyError", ret |-> None]

---------------------------------------------------------------------------
(* HDFContainerBase *)

\* The h5py.File of a container after close(): the handle has no member
\* (name in a closed file is False for every name), and the file on disk
\* keeps the content.
ClosedFile(content) ==
    (<<>> :> [kind |-> "closed", data |-> content, attrs |-> {}])

IsClosed(f) == <<>> \in DOMAIN f

\* h5py.File(hdf_file, "w"): the file is truncated.
load_Truncating(f) == Result(<<>>, None, None)

\* h5py.File(hdf_file, "r+"): the content of the file on disk, in the
\* handle of a new container.
load(f) == Result(IF IsClosed(f) THEN f[<<>>].data ELSE f, None, None)

\* close() of a closed file does nothing.
close(f) == Result(IF IsClosed(f) THEN f ELSE ClosedFile(f), None, None)

\* create_group raises on a closed file (ValueError in h5py).
_makeGroup(f, base, groups) ==
    LET full == <<base>> \o groups
        chain == {SubSeq(full, 1, n) : n \in 1 .. Len(full)}
    IN  IF IsClosed(f) THEN Result(f, "ValueError", None)
        ELSE Result(IF chain \subseteq DOMAIN f THEN f
                    ELSE [p \in DOMAIN f \cup chain |->
                            IF p \in DOMAIN f THEN f[p] ELSE GroupNode],
                    None, full)

\* _getGroup that makes the groups it does not find.
_getGroup_Making(f, base, groups) ==
    LET full == <<base>> \o groups
        chain == {SubSeq(full, 1, n) : n \in 1 .. Len(full)}
    IN  Result([p \in DOMAIN f \cup chain |->
                  IF p \in DOMAIN f THEN f[p] ELSE GroupNode],
               IF chain \subseteq DOMAIN f THEN None ELSE "LookupError", full)

_getGroup(f, base, groups) ==
    LET full == <<base>> \o groups
    IN  IF \E n \in 1 .. Len(full) : SubSeq(full, 1, n) \notin DOMAIN f
        THEN Result(f, "LookupError", None)
        ELSE Result(f, None, full)

RECURSIVE _getGroupPaths(_, _)
RECURSIVE PathsOfKeys(_, _, _)
\* The loop `for kk in k` of _getGroupPaths, over the keys k still to visit.
PathsOfKeys(f, dd, k) ==
    IF k = {} THEN EmptyBag
    ELSE LET kk == CHOOSE x \in k : TRUE
             paths == _getGroupPaths(f, Append(dd, kk))
             plist == IF BagCardinality(paths) > 0
                      THEN [nn \in {<<kk>> \o path : path \in DOMAIN paths}
                              |-> paths[Tail(nn)]]
                      ELSE SetToBag({<<kk>>})
         IN  plist (+) PathsOfKeys(f, dd, k \ {kk})

_getGroupPaths(f, dd) ==
    IF f[dd].kind /= "group" THEN EmptyBag
    ELSE PathsOfKeys(f, dd, Keys(f, dd))

\* A group has no .value: mdataset.value raises AttributeError on one.
getDictionary(f, groups, name) ==
    LET g == _getGroup(f, "dictionaries", groups)
    IN  IF g.exc /= None THEN g
        ELSE IF ~Contains(f, g.ret, name) THEN Result(f, "LookupError", None)
        ELSE IF f[Append(g.ret, name)].kind = "group"
        THEN Result(f, "AttributeError", None)
        ELSE Result(f, None, JsonLoads(f[Append(g.ret, name)].data))

\* create_dataset raises on a name the group already has.
setDictionary(f, groups, name, dictionary) ==
    LET g == _makeGroup(f, "dictionaries", groups)
        inbytes == JsonDumps(dictionary)
    IN  IF g.exc /= None THEN g
        ELSE IF ~JsonSerializable(dictionary)
        THEN Result(g.f, "TypeError", None)
        ELSE IF Contains(g.f, g.ret, name)
        THEN Result(g.f, "ValueError", None)
        ELSE Result(Create(g.f, Append(g.ret, name), DatasetNode(inbytes, {})),
                    None, None)

dropDictionary(f, groups, name) ==
    LET g == _getGroup(f, "dictionaries", groups)
    IN  IF g.exc /= None THEN g
        ELSE IF ~Contains(f, g.ret, name) THEN Result(f, "LookupError", None)
        ELSE Result(Delete(f, Append(g.ret, name)), None, None)

getDictionaries(f) ==
    IF <<"dictionaries">> \notin DOMAIN f THEN EmptyBag
    ELSE _getGroupPaths(f, <<"dictionaries">>)

\* setArray that stores no metadata.
setArray_NoMetadata(f, groups, name, array, metadata) ==
    LET g == _makeGroup(f, "arrays", groups)
    IN  IF Contains(g.f, g.ret, name)
        THEN Result(g.f, "LookupError", None)
        ELSE Result(Create(g.f, Append(g.ret, name), DatasetNode(array, {})),
                    None, None)

\* setArray that replaces the array the name holds.
setArray_Replacing(f, groups, name, array, metadata) ==
    LET g == _makeGroup(f, "arrays", groups)
    IN  Result(Create(Delete(g.f, Append(g.ret, name)), Append(g.ret, name),
                      DatasetNode(array, metadata)),
               IF Contains(g.f, g.ret, name) THEN "LookupError" ELSE None, None)

setArray(f, groups, name, array, metadata) ==
    LET g == _makeGroup(f, "arrays", groups)
    IN  IF g.exc /= None THEN g
        ELSE IF Contains(g.f, g.ret, name)
        THEN Result(g.f, "LookupError", None)
        ELSE Result(Create(g.f, Append(g.ret, name),
                           DatasetNode(array,
                                       IF metadata /= {} THEN metadata ELSE {})),
                    None, None)

\* getArray that does not read the attributes of the dataset.
getArray_NoMetadata(f, groups, name) ==
    LET g == _getGroup(f, "arrays", groups)
    IN  IF g.exc /= None THEN g
        ELSE IF ~Contains(f, g.ret, name) THEN Result(f, "LookupError", None)
        ELSE IF f[Append(g.ret, name)].kind = "group"
        THEN Result(f, "TypeError", None)
        ELSE Result(f, None, <<f[Append(g.ret, name)].data, {}>>)

\* A group is not indexed by (): dset[()] raises on one.
getArray(f, groups, name) ==
    LET g == _getGroup(f, "arrays", groups)
    IN  IF g.exc /= None THEN g
        ELSE IF ~Contains(f, g.ret, name) THEN Result(f, "LookupError", None)
        ELSE IF f[Append(g.ret, name)].kind = "group"
        THEN Result(f, "TypeError", None)
        ELSE LET dset == f[Append(g.ret, name)]
             IN  Result(f, None, <<dset.data, dset.attrs>>)

getArrays(f) ==
    IF <<"arrays">> \notin DOMAIN f THEN EmptyBag
    ELSE _getGroupPaths(f, <<"arrays">>)

\* del array_group[name], with no test before it: KeyError on a name the
\* group has not.
dropArray(f, groups, name) ==
    LET g == _getGroup(f, "arrays", groups)
    IN  IF g.exc /= None THEN g
        ELSE IF ~Contains(f, g.ret, name) THEN Result(f, "KeyError", None)
        ELSE Result(Delete(f, Append(g.ret, name)), None, None)

\* setString that replaces the string the name holds.
setString_Replacing(f, groups, name, instring) ==
    LET g == _makeGroup(f, "strings", groups)
    IN  Result(Create(Delete(g.f, Append(g.ret, name)), Append(g.ret, name),
                      DatasetNode(Utf8Encode(instring), {})),
               IF Contains(g.f, g.ret, name) THEN "ValueError" ELSE None, None)

setString(f, groups, name, instring) ==
    LET g == _makeGroup(f, "strings", groups)
        inbytes == Utf8Encode(instring)
    IN  IF g.exc /= None THEN g
        ELSE IF Contains(g.f, g.ret, name)
        THEN Result(g.f, "ValueError", None)
        ELSE Result(Create(g.f, Append(g.ret, name), DatasetNode(inbytes, {})),
                    None, None)

getString(f, groups, name) ==
    LET g == _getGroup(f, "strings", groups)
    IN  IF g.exc /= None THEN g
        ELSE IF ~Contains(f, g.ret, name) THEN Result(f, "LookupError", None)
        ELSE IF f[Append(g.ret, name)].kind = "group"
        THEN Result(f, "AttributeError", None)
        ELSE Result(f, None, Utf8Decode(f[Append(g.ret, name)].data))

\* getStrings that lists the group it looks for when the file has none.
getStrings_Missing(f) ==
    IF <<"strings">> \notin DOMAIN f THEN SetToBag({<<"strings">>})
    ELSE _getGroupPaths(f, <<"strings">>)

getStrings(f) ==
    IF <<"strings">> \notin DOMAIN f THEN EmptyBag
    ELSE _getGroupPaths(f, <<"strings">>)

dropString(f, groups, name) ==
    LET g == _getGroup(f, "strings", groups)
    IN  IF g.exc /= None THEN g
        ELSE IF ~Contains(f, g.ret, name) THEN Result(f, "LookupError", None)
        ELSE Result(Delete(f, Append(g.ret, name)), None, None)

---------------------------------------------------------------------------
(* ShakeMapContainerBase: config, rupture, stations, version history.  An   *)
(* argument whose type the code tests is a Python object: its type and,    *)
(* when it is a dict, its items.                                           *)

PyDict(items) == [type |-> "dict", items |-> items]

PyStr == [type |-> "str", items |-> {}]

isinstance(obj, type) == obj.type = type

\* setConfig that does not drop the stored configuration.
setConfig_NoDrop(f, config) ==
    setDictionary(f, <<>>, "config", config)

setConfig(f, config) ==
    LET d == IF BagIn(<<"config">>, getDictionaries(f))
             THEN dropDictionary(f, <<>>, "config")
             ELSE Result(f, None, None)
    IN  IF d.exc /= None THEN d
        ELSE setDictionary(d.f, <<>>, "config", config)

getConfig(f) ==
    IF ~BagIn(<<"config">>, getDictionaries(f))
    THEN Result(f, "AttributeError", None)
    ELSE getDictionary(f, <<>>, "config")

setRuptureDict(f, rupture) ==
    LET d == IF BagIn(<<"rupture">>, getDictionaries(f))
             THEN dropDictionary(f, <<>>, "rupture")
             ELSE Result(f, None, None)
    IN  IF d.exc /= None THEN d
        ELSE IF ~isinstance(rupture, "dict")
        THEN Result(d.f, "TypeError", None)
        ELSE setDictionary(d.f, <<>>, "rupture", rupture.items)

getRuptureDict(f) ==
    IF ~BagIn(<<"rupture">>, getDictionaries(f))
    THEN Result(f, "AttributeError", None)
    ELSE getDictionary(f, <<>>, "rupture")

\* setStationDict that drops the stored dictionary before it tests the type.
setStationDict_DropFirst(f, stationdict) ==
    LET d == IF BagIn(<<"stations_dict">>, getDictionaries(f))
             THEN dropDictionary(f, <<>>, "stations_dict")
             ELSE Result(f, None, None)
    IN  IF d.exc /= None THEN d
        ELSE IF ~isinstance(stationdict, "dict")
        THEN Result(d.f, "TypeError", None)
        ELSE setDictionary(d.f, <<>>, "stations_dict", stationdict.items)

setStationDict(f, stationdict) ==
    IF ~isinstance(stationdict, "dict") THEN Result(f, "TypeError", None)
    ELSE LET d == IF BagIn(<<"stations_dict">>, getDictionaries(f))
                  THEN dropDictionary(f, <<>>, "stations_dict")
                  ELSE Result(f, None, None)
         IN  IF d.exc /= None THEN d
             ELSE setDictionary(d.f, <<>>, "stations_dict", stationdict.items)

getStationDict(f) ==
    IF ~BagIn(<<"stations_dict">>, getDictionaries(f))
    THEN Result(f, "AttributeError", None)
    ELSE getDictionary(f, <<>>, "stations_dict")

setVersionHistory(f, history_dict) ==
    LET d == IF BagIn(<<"version_history">>, getDictionaries(f))
             THEN dropDictionary(f, <<>>, "version_history")
             ELSE Result(f, None, None)
    IN  IF d.exc /= None THEN d
        ELSE setDictionary(d.f, <<>>, "version_history", history_dict)

\* getVersionHistory that raises when no history is stored.
getVersionHistory_Raises(f) ==
    IF ~BagIn(<<"version_history">>, getDictionaries(f))
    THEN Result(f, "AttributeError", None)
    ELSE getDictionary(f, <<>>, "version_history")

getVersionHistory(f) ==
    IF ~BagIn(<<"version_history">>, getDictionaries(f))
    THEN Result(f, None, {})
    ELSE getDictionary(f, <<>>, "version_history")

---------------------------------------------------------------------------
(* ShakeMapOutputContainer: the data type of the file *)

\* setDataType that accepts any valid type on a file whose type is set.
setDataType_NoConflict(f, datatype) ==
    IF datatype /= "points" /\ datatype /= "grid"
    THEN Result(f, "TypeError", None)
    ELSE IF BagIn(<<"file_data_type">>, getDictionaries(f))
    THEN Result(f, None, None)
    ELSE setDictionary(f, <<>>, "file_data_type", {<<"type", datatype>>})

setDataType(f, datatype) ==
    IF datatype /= "points" /\ datatype /= "grid"
    THEN Result(f, "TypeError", None)
    ELSE IF BagIn(<<"file_data_type">>, getDictionaries(f))
    THEN LET d == getDictionary(f, <<>>, "file_data_type")
             current_data_type == DictGet(d.ret, "type")
         IN  IF d.exc /= None THEN d
             ELSE IF current_data_type.exc /= None
             THEN Result(f, current_data_type.exc, None)
             ELSE IF current_data_type.ret /= datatype
             THEN Result(f, "TypeError", None)
             ELSE Result(f, None, None)
    ELSE setDictionary(f, <<>>, "file_data_type", {<<"type", datatype>>})

getDataType(f) ==
    IF BagIn(<<"file_data_type">>, getDictionaries(f))
    THEN LET d == getDictionary(f, <<>>, "file_data_type")
             type == DictGet(d.ret, "type")
         IN  IF d.exc /= None THEN d
             ELSE Result(f, type.exc, type.ret)
    ELSE Result(f, None, None)

setMetadata(f, info) ==
    LET d == IF BagIn(<<"info.json">>, getDictionaries(f))
             THEN dropDictionary(f, <<>>, "info.json")
             ELSE Result(f, None, None)
    IN  IF d.exc /= None THEN d
        ELSE setDictionary(d.f, <<>>, "info.json", info)

getMetadata(f) ==
    IF ~BagIn(<<"info.json">>, getDictionaries(f))
    THEN Result(f, "LookupError", None)
    ELSE getDictionary(f, <<>>, "info.json")

---------------------------------------------------------------------------
(* ShakeMapOutputContainer: IMT grids and IMT arrays *)

\* setIMTGrids that stores the grids before it looks at the data type.
setIMTGrids_WriteFirst(f, imt_name, imt_mean, mean_metadata, imt_std, std_metadata, component) ==
    LET sub_groups == <<"imts", component, imt_name>>
        m == setArray(f, sub_groups, "mean", imt_mean, mean_metadata)
        s == setArray(m.f, sub_groups, "std", imt_std, std_metadata)
        dt == getDataType(s.f)
        sdt == setDataType(s.f, "grid")
    IN  IF m.exc /= None THEN m
        ELSE IF s.exc /= None THEN s
        ELSE IF dt.exc /= None THEN dt
        ELSE IF dt.ret = "points" THEN Result(s.f, "TypeError", None)
        ELSE sdt

\* setIMTGrids that deletes the record it finds and writes the new one.
setIMTGrids_Replacing(f, imt_name, imt_mean, mean_metadata, imt_std, std_metadata, component) ==
    LET dt == getDataType(f)
        sdt == setDataType(f, "grid")
        sub_groups == <<"imts", component, imt_name>>
        m == setArray(Delete(sdt.f, <<"arrays">> \o sub_groups),
                      sub_groups, "mean", imt_mean, mean_metadata)
        s == setArray(m.f, sub_groups, "std", imt_std, std_metadata)
    IN  IF dt.exc /= None THEN dt
        ELSE IF dt.ret = "points" THEN Result(f, "TypeError", None)
        ELSE IF sdt.exc /= None THEN sdt
        ELSE IF m.exc /= None THEN m
        ELSE s

setIMTGrids(f, imt_name, imt_mean, mean_metadata, imt_std, std_metadata, component) ==
    LET dt == getDataType(f)
        sdt == setDataType(f, "grid")
        sub_groups == <<"imts", component, imt_name>>
        m == setArray(sdt.f, sub_groups, "mean", imt_mean, mean_metadata)
        s == setArray(m.f, sub_groups, "std", imt_std, std_metadata)
    IN  IF dt.exc /= None THEN dt
        ELSE IF dt.ret = "points" THEN Result(f, "TypeError", None)
        ELSE IF sdt.exc /= None THEN sdt
        ELSE IF m.exc /= None THEN m
        ELSE s

\* getIMTGrids that refuses only a file of points (the test of setIMTGrids).
getIMTGrids_RefusePoints(f, imt_name, component) ==
    LET dt == getDataType(f)
        sub_groups == <<"imts", component, imt_name>>
        mean == getArray(f, sub_groups, "mean")
        std == getArray(f, sub_groups, "std")
    IN  IF dt.exc /= None THEN dt
        ELSE IF dt.ret = "points" THEN Result(f, "TypeError", None)
        ELSE IF mean.exc /= None THEN mean
        ELSE IF std.exc /= None THEN std
        ELSE Result(f, None, [mean |-> mean.ret[1],
                              mean_metadata |-> mean.ret[2],
                              std |-> std.ret[1],
                              std_metadata |-> std.ret[2]])

getIMTGrids(f, imt_name, component) ==
    LET dt == getDataType(f)
        sub_groups == <<"imts", component, imt_name>>
        mean == getArray(f, sub_groups, "mean")
        std == getArray(f, sub_groups, "std")
    IN  IF dt.exc /= None THEN dt
        ELSE IF dt.ret /= "grid" THEN Result(f, "TypeError", None)
        ELSE IF mean.exc /= None THEN mean
        ELSE IF std.exc /= None THEN std
        ELSE Result(f, None, [mean |-> mean.ret[1],
                              mean_metadata |-> mean.ret[2],
                              std |-> std.ret[1],
                              std_metadata |-> std.ret[2]])

\* array.shape of a one-dimensional array
Shape(array) == <<Len(array)>>

\* setIMTArrays that does not compare the shapes.
setIMTArrays_NoShapeTest(f, imt_name, lons, lats, ids, imt_mean, mean_metadata, imt_std, std_metadata, component) ==
    LET dt == getDataType(f)
        sdt == setDataType(f, "points")
        sub_groups == <<"imts", component, imt_name>>
        a1 == setArray(sdt.f, sub_groups, "lons", lons, {})
        a2 == setArray(a1.f, sub_groups, "lats", lats, {})
        a3 == setArray(a2.f, sub_groups, "ids", ids, {})
        a4 == setArray(a3.f, sub_groups, "mean", imt_mean, mean_metadata)
        a5 == setArray(a4.f, sub_groups, "std", imt_std, std_metadata)
    IN  IF dt.exc /= None THEN dt
        ELSE IF dt.ret = "grid" THEN Result(f, "TypeError", None)
        ELSE IF sdt.exc /= None THEN sdt
        ELSE IF a1.exc /= None THEN a1
        ELSE IF a2.exc /= None THEN a2
        ELSE IF a3.exc /= None THEN a3
        ELSE IF a4.exc /= None THEN a4
        ELSE a5

\* setIMTArrays that compares the shapes of lons, lats and imt_mean only.
setIMTArrays_ThreeShapes(f, imt_name, lons, lats, ids, imt_mean, mean_metadata, imt_std, std_metadata, component) ==
    LET dt == getDataType(f)
        sdt == setDataType(f, "points")
        sub_groups == <<"imts", component, imt_name>>
        a1 == setArray(sdt.f, sub_groups, "lons", lons, {})
        a2 == setArray(a1.f, sub_groups, "lats", lats, {})
        a3 == setArray(a2.f, sub_groups, "ids", ids, {})
        a4 == setArray(a3.f, sub_groups, "mean", imt_mean, mean_metadata)
        a5 == setArray(a4.f, sub_groups, "std", imt_std, std_metadata)
    IN  IF dt.exc /= None THEN dt
        ELSE IF dt.ret = "grid" THEN Result(f, "TypeError", None)
        ELSE IF sdt.exc /= None THEN sdt
        ELSE IF \/ Shape(lons) /= Shape(lats)
                \/ Shape(lons) /= Shape(imt_mean)
        THEN Result(sdt.f, "ValueError", None)
        ELSE IF a1.exc /= None THEN a1
        ELSE IF a2.exc /= None THEN a2
        ELSE IF a3.exc /= None THEN a3
        ELSE IF a4.exc /= None THEN a4
        ELSE a5

setIMTArrays(f, imt_name, lons, lats, ids, imt_mean, mean_metadata, imt_std, std_metadata, component) ==
    LET dt == getDataType(f)
        sdt == setDataType(f, "points")
        sub_groups == <<"imts", component, imt_name>>
        a1 == setArray(sdt.f, sub_groups, "lons", lons, {})
        a2 == setArray(a1.f, sub_groups, "lats", lats, {})
        a3 == setArray(a2.f, sub_groups, "ids", ids, {})
        a4 == setArray(a3.f, sub_groups, "mean", imt_mean, mean_metadata)
        a5 == setArray(a4.f, sub_groups, "std", imt_std, std_metadata)
    IN  IF dt.exc /= None THEN dt
        ELSE IF dt.ret = "grid" THEN Result(f, "TypeError", None)
        ELSE IF sdt.exc /= None THEN sdt
        ELSE IF \/ Shape(lons) /= Shape(lats)
                \/ Shape(lons) /= Shape(ids)
                \/ Shape(lons) /= Shape(imt_mean)
                \/ Shape(lons) /= Shape(imt_std)
        THEN Result(sdt.f, "ValueError", None)
        ELSE IF a1.exc /= None THEN a1
        ELSE IF a2.exc /= None THEN a2
        ELSE IF a3.exc /= None THEN a3
        ELSE IF a4.exc /= None THEN a4
        ELSE a5

getIMTArrays(f, imt_name, component) ==
    LET dt == getDataType(f)
        sub_groups == <<"imts", component, imt_name>>
        lons == getArray(f, sub_groups, "lons")
        lats == getArray(f, sub_groups, "lats")
        ids == getArray(f, sub_groups, "ids")
        mean == getArray(f, sub_groups, "mean")
        std == getArray(f, sub_groups, "std")
    IN  IF dt.exc /= None THEN dt
        ELSE IF dt.ret /= "points" THEN Result(f, "TypeError", None)
        ELSE IF lons.exc /= None THEN lons
        ELSE IF lats.exc /= None THEN lats
        ELSE IF ids.exc /= None THEN ids
        ELSE IF mean.exc /= None THEN mean
        ELSE IF std.exc /= None THEN std
        ELSE Result(f, None, [lons |-> lons.ret[1],
                              lats |-> lats.ret[1],
                              ids |-> ids.ret[1],
                              mean |-> mean.ret[1],
                              mean_metadata |-> mean.ret[2],
                              std |-> std.ret[1],
                              std_metadata |-> std.ret[2]])

---------------------------------------------------------------------------
(* ShakeMapOutputContainer: the IMT index and dropIMT *)

ImtsGroup == <<"arrays", "imts">>

HasImts(f) == <<"arrays">> \in DOMAIN f /\ Contains(f, <<"arrays">>, "imts")

getIMTs(f, component) ==
    IF ~HasImts(f) THEN Result(f, None, {})
    ELSE IF component = None
    THEN Result(f, None,
                UNION {{<<comp, imt>> : imt \in Keys(f, Append(ImtsGroup, comp))}
                       : comp \in Keys(f, ImtsGroup)})
    ELSE IF ~Contains(f, ImtsGroup, component)
    THEN Result(f, "KeyError", None)
    ELSE Result(f, None, Keys(f, Append(ImtsGroup, component)))

getComponents(f, imt_name) ==
    IF ~HasImts(f) THEN Result(f, None, {})
    ELSE IF imt_name = None THEN Result(f, None, Keys(f, ImtsGroup))
    ELSE Result(f, None,
                {component \in Keys(f, ImtsGroup) :
                    Contains(f, Append(ImtsGroup, component), imt_name)})

RECURSIVE DeleteEach(_, _, _)
DeleteEach(f, components, imt_name) ==
    IF components = {} THEN f
    ELSE LET comp == CHOOSE c \in components : TRUE
         IN  DeleteEach(Delete(f, ImtsGroup \o <<comp, imt_name>>),
                        components \ {comp}, imt_name)

\* dropIMT that deletes the IMT from one component only.
dropIMT_OneComponent(f, imt_name) ==
    IF ~HasImts(f) THEN Result(f, "LookupError", None)
    ELSE LET components == getComponents(f, imt_name).ret
         IN  Result(IF components = {} THEN f
                    ELSE Delete(f, ImtsGroup \o
                                   <<CHOOSE c \in components : TRUE, imt_name>>),
                    None, None)

\* dropIMT that raises when no component holds the IMT.
dropIMT_Strict(f, imt_name) ==
    IF ~HasImts(f) \/ getComponents(f, imt_name).ret = {}
    THEN Result(f, "LookupError", None)
    ELSE Result(DeleteEach(f, getComponents(f, imt_name).ret, imt_name),
                None, None)

\* dropIMT that also deletes the component groups it has emptied.
dropIMT_Pruning(f, imt_name) ==
    IF ~HasImts(f) THEN Result(f, "LookupError", None)
    ELSE LET g == DeleteEach(f, getComponents(f, imt_name).ret, imt_name)
         IN  Result([p \in {q \in DOMAIN g :
                              ~(/\ IsPrefix(ImtsGroup, q)
                                /\ Len(q) = Len(ImtsGroup) + 1
                                /\ Keys(g, q) = {})} |-> g[p]],
                    None, None)

dropIMT(f, imt_name) ==
    IF ~HasImts(f) THEN Result(f, "LookupError", None)
    ELSE Result(DeleteEach(f, getComponents(f, imt_name).ret, imt_name),
                None, None)

---------------------------------------------------------------------------
(* The arguments the calls are made with. *)

Components == {"A", "B"}

IMTNames == {"pga", "mmi"}

DataTypes == {"grid", "points", "invalid"}

Lengths == 1 .. MaxLen

\* A length other than n (n itself when there is no other).
Other(n) == (n % MaxLen) + 1

LonsOf(n) == [i \in 1 .. n |-> 100 + i]

LatsOf(n) == [i \in 1 .. n |-> 200 + i]

IdsOf(n) == [i \in 1 .. n |-> 300 + i]

MeanOf(n) == [i \in 1 .. n |-> i]

StdOf(n) == [i \in 1 .. n |-> 0]

MeanMetadata == {<<"units", "g">>}

StdMetadata == {<<"units", "ln">>}

\* The arguments of setIMTGrids: a mean and a std grid of n cells each.
GridInputs ==
    {[imt_mean |-> MeanOf(n), mean_metadata |-> MeanMetadata,
      imt_std |-> StdOf(n), std_metadata |-> StdMetadata] : n \in Lengths}

Roles == {"lons", "lats", "ids", "mean", "std"}

\* Five arrays of n elements each, but for the one named odd (if any), which
\* has another length.
PointsOf(n, odd) ==
    [lons |-> LonsOf(IF odd = "lons" THEN Other(n) ELSE n),
     lats |-> LatsOf(IF odd = "lats" THEN Other(n) ELSE n),
     ids |-> IdsOf(IF odd = "ids" THEN Other(n) ELSE n),
     imt_mean |-> MeanOf(IF odd = "mean" THEN Other(n) ELSE n),
     mean_metadata |-> MeanMetadata,
     imt_std |-> StdOf(IF odd = "std" THEN Other(n) ELSE n),
     std_metadata |-> StdMetadata]

\* The arguments of setIMTArrays: five arrays of one shape, of each length,
\* and five arrays of which each in turn has a shape of its own.
PointsInputs ==
    {PointsOf(n, None) : n \in Lengths}
      \cup {PointsOf(MaxLen, odd) : odd \in Roles}

\* The dictionaries stored through the path-addressed API.
Dictionaries == {{<<"type", "grid">>}, {<<"type", "points">>}}

DictionaryNames == {"file_data_type"}

\* The dictionaries of config, rupture, stations, version history, metadata.
SlotValues == {{<<"", "test1">>}, {<<"", "test2">>}}

SlotNames == {"config", "rupture", "stations_dict", "version_history", "info.json"}

\* The arguments of setRuptureDict and setStationDict: a dict, or a str.
SlotObjects == {PyDict(v) : v \in SlotValues} \cup {PyStr}

\* The arguments of the path-addressed calls: the groups entries are set
\* under, the groups they are looked for under, their names and values.
EntryGroups == {<<>>, <<"g">>}

ProbeGroups == EntryGroups \cup {<<"g", "h">>}

EntryNames == {"a"}

EntryDictionaries == {{<<"name", "Fred">>}, {<<"name", "Akyuz">>}}

InvalidDictionaries == {{<<"dob", Unsupported>>}}

EntryStrings == {"s1", "s2"}

EntryArrays == {<<1, 2>>, <<3>>}

EntryMetadata == {<<"xmin", "54.1">>}

---------------------------------------------------------------------------
(* The container: create(hdf_file), then any sequence of calls. *)

Called(op, args, r) == [op |-> op, args |-> args, exc |-> r.exc, ret |-> r.ret]

Init ==
    /\ hdfobj = <<>>
    /\ last = [op |-> "create", args |-> <<>>, exc |-> None, ret |-> None]

Call_setDictionary ==
    \E name \in DictionaryNames, dictionary \in Dictionaries :
        LET r == setDictionary(hdfobj, <<>>, name, dictionary)
        IN  /\ hdfobj' = r.f
            /\ last' = Called("setDictionary", <<name>>, r)

Call_getDictionary ==
    \E name \in DictionaryNames :
        LET r == getDictionary(hdfobj, <<>>, name)
        IN  /\ hdfobj' = r.f
            /\ last' = Called("getDictionary", <<name>>, r)

Call_dropDictionary ==
    \E name \in DictionaryNames :
        LET r == dropDictionary(hdfobj, <<>>, name)
        IN  /\ hdfobj' = r.f
            /\ last' = Called("dropDictionary", <<name>>, r)

Call_getDictionaries ==
    /\ last' = Called("getDictionaries", <<>>,
                      Result(hdfobj, None, getDictionaries(hdfobj)))
    /\ UNCHANGED hdfobj

Call_getArrays ==
    /\ last' = Called("getArrays", <<>>, Result(hdfobj, None, getArrays(hdfobj)))
    /\ UNCHANGED hdfobj

Call_setDataType ==
    \E datatype \in DataTypes :
        LET r == setDataType(hdfobj, datatype)
        IN  /\ hdfobj' = r.f
            /\ last' = Called("setDataType", <<datatype>>, r)

Call_getDataType ==
    LET r == getDataType(hdfobj)
    IN  /\ hdfobj' = r.f
        /\ last' = Called("getDataType", <<>>, r)

Write_setIMTGrids(imt_names, components) ==
    \E imt_name \in imt_names, component \in components, in \in GridInputs :
        LET r == setIMTGrids(hdfobj, imt_name, in.imt_mean, in.mean_metadata,
                             in.imt_std, in.std_metadata, component)
        IN  /\ hdfobj' = r.f
            /\ last' = Called("setIMTGrids", <<imt_name, component>>, r)

Call_setIMTGrids == Write_setIMTGrids(IMTNames, Components)

Call_getIMTGrids ==
    \E imt_name \in IMTNames, component \in Components :
        LET r == getIMTGrids(hdfobj, imt_name, component)
        IN  /\ hdfobj' = r.f
            /\ last' = Called("getIMTGrids", <<imt_name, component>>, r)

Write_setIMTArrays(imt_names, components) ==
    \E imt_name \in imt_names, component \in components, in \in PointsInputs :
        LET r == setIMTArrays(hdfobj, imt_name, in.lons, in.lats, in.ids,
                              in.imt_mean, in.mean_metadata,
                              in.imt_std, in.std_metadata, component)
        IN  /\ hdfobj' = r.f
            /\ last' = Called("setIMTArrays", <<imt_name, component>>, r)

Call_setIMTArrays == Write_setIMTArrays(IMTNames, Components)

Call_getIMTArrays ==
    \E imt_name \in IMTNames, component \in Components :
        LET r == getIMTArrays(hdfobj, imt_name, component)
        IN  /\ hdfobj' = r.f
            /\ last' = Called("getIMTArrays", <<imt_name, component>>, r)

Call_getIMTs ==
    \E component \in Components \cup {None} :
        LET r == getIMTs(hdfobj, component)
        IN  /\ hdfobj' = r.f
            /\ last' = Called("getIMTs", <<component>>, r)

Call_getComponents ==
    \E imt_name \in IMTNames \cup {None} :
        LET r == getComponents(hdfobj, imt_name)
        IN  /\ hdfobj' = r.f
            /\ last' = Called("getComponents", <<imt_name>>, r)

Call_dropIMT ==
    \E imt_name \in IMTNames :
        LET r == dropIMT(hdfobj, imt_name)
        IN  /\ hdfobj' = r.f
            /\ last' = Called("dropIMT", <<imt_name>>, r)

\* The schema layer of ShakeMapOutputContainer: the data type, the IMT
\* writes and reads, the IMT index and dropIMT, and the listings.
Next ==
    \/ Call_getDictionaries
    \/ Call_getArrays
    \/ Call_setDataType
    \/ Call_getDataType
    \/ Call_setIMTGrids
    \/ Call_getIMTGrids
    \/ Call_setIMTArrays
    \/ Call_getIMTArrays
    \/ Call_getIMTs
    \/ Call_getComponents
    \/ Call_dropIMT

Spec == Init /\ [][Next]_vars

\* The calls of the schema layer that write: the data type, the IMT
\* records of every component, and dropIMT.
NextSchema ==
    \/ Call_setDataType
    \/ Call_setIMTGrids
    \/ Call_setIMTArrays
    \/ Call_dropIMT

SpecSchema == Init /\ [][NextSchema]_vars

\* One IMT of one component, the data type, and the dictionaries reached
\* through the path-addressed API of HDFContainerBase.
One_setIMTGrids == Write_setIMTGrids({"pga"}, {"A"})

One_setIMTArrays == Write_setIMTArrays({"pga"}, {"A"})

NextGeneric ==
    \/ Call_setDictionary
    \/ Call_getDictionary
    \/ Call_dropDictionary
    \/ Call_getDictionaries
    \/ Call_setDataType
    \/ Call_getDataType
    \/ One_setIMTGrids
    \/ One_setIMTArrays
    \/ Call_dropIMT

SpecGeneric == Init /\ [][NextGeneric]_vars

---------------------------------------------------------------------------
(* The container of config, rupture, stations, version history and         *)
(* metadata, whose dictionaries can also be dropped by name.               *)

Call_setConfig ==
    \E config \in SlotValues :
        LET r == setConfig(hdfobj, config)
        IN  hdfobj' = r.f /\ last' = Called("setConfig", <<>>, r)

Call_getConfig ==
    LET r == getConfig(hdfobj)
    IN  hdfobj' = r.f /\ last' = Called("getConfig", <<>>, r)

Call_setRuptureDict ==
    \E rupture \in SlotObjects :
        LET r == setRuptureDict(hdfobj, rupture)
        IN  hdfobj' = r.f /\ last' = Called("setRuptureDict", <<rupture.type>>, r)

Call_getRuptureDict ==
    LET r == getRuptureDict(hdfobj)
    IN  hdfobj' = r.f /\ last' = Called("getRuptureDict", <<>>, r)

Call_setStationDict ==
    \E stationdict \in SlotObjects :
        LET r == setStationDict(hdfobj, stationdict)
        IN  hdfobj' = r.f /\ last' = Called("setStationDict", <<stationdict.type>>, r)

Call_getStationDict ==
    LET r == getStationDict(hdfobj)
    IN  hdfobj' = r.f /\ last' = Called("getStationDict", <<>>, r)

Call_setVersionHistory ==
    \E history_dict \in SlotValues :
        LET r == setVersionHistory(hdfobj, history_dict)
        IN  hdfobj' = r.f /\ last' = Called("setVersionHistory", <<>>, r)

Call_getVersionHistory ==
    LET r == getVersionHistory(hdfobj)
    IN  hdfobj' = r.f /\ last' = Called("getVersionHistory", <<>>, r)

Call_setMetadata ==
    \E info \in SlotValues :
        LET r == setMetadata(hdfobj, info)
        IN  hdfobj' = r.f /\ last' = Called("setMetadata", <<>>, r)

Call_getMetadata ==
    LET r == getMetadata(hdfobj)
    IN  hdfobj' = r.f /\ last' = Called("getMetadata", <<>>, r)

Call_dropSlot ==
    \E name \in SlotNames :
        LET r == dropDictionary(hdfobj, <<>>, name)
        IN  hdfobj' = r.f /\ last' = Called("dropDictionary", <<name>>, r)

---------------------------------------------------------------------------
(* The container of dictionaries, strings and arrays set, got and dropped  *)
(* by groups and name.                                                     *)

Entry_setDictionary ==
    \E groups \in EntryGroups, name \in EntryNames,
       dictionary \in EntryDictionaries \cup InvalidDictionaries :
        LET r == setDictionary(hdfobj, groups, name, dictionary)
        IN  hdfobj' = r.f /\ last' = Called("setDictionary", <<groups, name>>, r)

Entry_getDictionary ==
    \E groups \in ProbeGroups, name \in EntryNames :
        LET r == getDictionary(hdfobj, groups, name)
        IN  hdfobj' = r.f /\ last' = Called("getDictionary", <<groups, name>>, r)

Entry_dropDictionary ==
    \E groups \in ProbeGroups, name \in EntryNames :
        LET r == dropDictionary(hdfobj, groups, name)
        IN  hdfobj' = r.f /\ last' = Called("dropDictionary", <<groups, name>>, r)

Entry_setString ==
    \E groups \in EntryGroups, name \in EntryNames, instring \in EntryStrings :
        LET r == setString(hdfobj, groups, name, instring)
        IN  hdfobj' = r.f /\ last' = Called("setString", <<groups, name>>, r)

Entry_getString ==
    \E groups \in ProbeGroups, name \in EntryNames :
        LET r == getString(hdfobj, groups, name)
        IN  hdfobj' = r.f /\ last' = Called("getString", <<groups, name>>, r)

Entry_dropString ==
    \E groups \in ProbeGroups, name \in EntryNames :
        LET r == dropString(hdfobj, groups, name)
        IN  hdfobj' = r.f /\ last' = Called("dropString", <<groups, name>>, r)

Entry_setArray ==
    \E groups \in EntryGroups, name \in EntryNames, array \in EntryArrays :
        LET r == setArray(hdfobj, groups, name, array, EntryMetadata)
        IN  hdfobj' = r.f /\ last' = Called("setArray", <<groups, name>>, r)

Entry_getArray ==
    \E groups \in ProbeGroups, name \in EntryNames :
        LET r == getArray(hdfobj, groups, name)
        IN  hdfobj' = r.f /\ last' = Called("getArray", <<groups, name>>, r)

Entry_dropArray ==
    \E groups \in ProbeGroups, name \in EntryNames :
        LET r == dropArray(hdfobj, groups, name)
        IN  hdfobj' = r.f /\ last' = Called("dropArray", <<groups, name>>, r)

Call_getStrings ==
    /\ last' = Called("getStrings", <<>>, Result(hdfobj, None, getStrings(hdfobj)))
    /\ UNCHANGED hdfobj

NextEntries ==
    \/ Entry_setDictionary
    \/ Entry_getDictionary
    \/ Entry_dropDictionary
    \/ Call_getDictionaries
    \/ Entry_setString
    \/ Entry_getString
    \/ Entry_dropString
    \/ Call_getStrings
    \/ Entry_setArray
    \/ Entry_getArray
    \/ Entry_dropArray
    \/ Call_getArrays

SpecEntries == Init /\ [][NextEntries]_vars

NextSlots ==
    \/ Call_setConfig
    \/ Call_getConfig
    \/ Call_setRuptureDict
    \/ Call_getRuptureDict
    \/ Call_setStationDict
    \/ Call_getStationDict
    \/ Call_setVersionHistory
    \/ Call_getVersionHistory
    \/ Call_setMetadata
    \/ Call_getMetadata
    \/ Call_dropSlot

SpecSlots == Init /\ [][NextSlots]_vars

\* The life of a container: calls on it, close(), calls on the closed
\* container, and load() of its file into a new container (the tests load a
\* file after they have closed it).
Call_close ==
    LET r == close(hdfobj)
    IN  hdfobj' = r.f /\ last' = Called("close", <<>>, r)

Call_load ==
    /\ IsClosed(hdfobj)
    /\ LET r == load(hdfobj)
       IN  hdfobj' = r.f /\ last' = Called("load", <<>>, r)

NextLifecycle ==
    \/ Call_close
    \/ Call_load
    \/ Call_setDataType
    \/ Call_getDataType
    \/ One_setIMTGrids
    \/ One_setIMTArrays
    \/ Call_getIMTs
    \/ Call_getComponents
    \/ Call_dropIMT
    \/ Call_setConfig
    \/ Call_getConfig
    \/ Call_getVersionHistory
    \/ Entry_setString
    \/ Entry_getString
    \/ Call_getDictionaries
    \/ Call_getArrays
    \/ Call_getStrings

SpecLifecycle == Init /\ [][NextLifecycle]_vars

---------------------------------------------------------------------------
(* HDFContainer of container.py: DataFrames.  A DataFrame is a function    *)
(* from column names to columns; a column is a sequence of cells, a cell a *)
(* Python value with its type.                                             *)

Cell(type, value) == [type |-> type, value |-> value]

\* datetime.strftime(TIMEFMT): the text of an instant.
strftime(t) ==
    CASE t = "t1900" -> "1900-01-01 00:00:00.000000"
      [] t = "t2000" -> "2000-01-01 00:00:00.000000"

Instants == {"t1900", "t2000"}

\* HistoricTime.strptime(value, TIMEFMT): TypeError on a value that is not
\* a str, ValueError on a text that has not the format.
strptime(cell) ==
    IF cell.type /= "str" THEN [exc |-> "TypeError", ret |-> None]
    ELSE IF \E t \in Instants : strftime(t) = cell.value
    THEN [exc |-> None,
          ret |-> Cell("HistoricTime",
                       CHOOSE t \in Instants : strftime(t) = cell.value)]
    ELSE [exc |-> "ValueError", ret |-> None]

\* '__dataframe_%s__' % name
GroupName(name) == <<"__dataframe__", name>>

_encode_list(value) ==
    [i \in DOMAIN value |->
        CASE value[i].type = "datetime" ->
               Cell("bytes", strftime(value[i].value))
          [] value[i].type = "str" -> Cell("bytes", value[i].value)
          [] OTHER -> value[i]]

\* The attributes of the group: every value of framedict is a list.
_dict2h5group(mydict) ==
    {<<key, _encode_list(mydict[key])>> : key \in DOMAIN mydict}

_convert(data) ==
    [i \in DOMAIN data |->
        IF data[i].type = "bytes" THEN Cell("str", data[i].value)
        ELSE data[i]]

_h5group2dict(attrs) == {<<kv[1], _convert(kv[2])>> : kv \in attrs}

\* dataframe.to_dict('list'), with the columns of pd.Timestamp turned into
\* columns of datetime.
ToFrameDict(dataframe) ==
    [cname \in DOMAIN dataframe |->
        IF dataframe[cname][1].type = "Timestamp"
        THEN [i \in DOMAIN dataframe[cname] |->
                Cell("datetime", dataframe[cname][i].value)]
        ELSE dataframe[cname]]

\* pd.DataFrame(datadict): a column of datetime objects becomes a column of
\* pd.Timestamp.
ToDataFrame(datadict) ==
    [cname \in {kv[1] : kv \in datadict} |->
        LET value == (CHOOSE kv \in datadict : kv[1] = cname)[2]
        IN  [i \in DOMAIN value |->
               IF value[i].type \in {"HistoricTime", "datetime"}
               THEN Cell("Timestamp", value[i].value)
               ELSE value[i]]]

\* create_group raises on a name the file already has.
setDataFrame(f, name, dataframe) ==
    LET framedict == ToFrameDict(dataframe)
        group_name == GroupName(name)
    IN  IF <<group_name>> \in DOMAIN f THEN Result(f, "ValueError", None)
        ELSE Result(Create(f, <<group_name>>,
                           [kind |-> "group", data |-> <<>>,
                            attrs |-> _dict2h5group(framedict)]),
                    None, None)

\* A column whose values all parse with TIMEFMT is returned as times: the
\* except clause leaves any other column as it was read.
getDataFrame(f, name) ==
    LET group_name == GroupName(name)
        datadict == _h5group2dict(f[<<group_name>>].attrs)
        Parsed(value) ==
            IF \A i \in DOMAIN value : strptime(value[i]).exc = None
            THEN [i \in DOMAIN value |-> strptime(value[i]).ret]
            ELSE value
    IN  IF <<group_name>> \notin DOMAIN f THEN Result(f, "LookupError", None)
        ELSE Result(f, None,
                    ToDataFrame({<<kv[1], Parsed(kv[2])>> : kv \in datadict}))

\* _get_type_list(self._hdfobj, 'dataframe')
getDataFrames(f) ==
    {p[1][2] : p \in {q \in DOMAIN f : Len(q) = 1 /\ q[1][1] = "__dataframe__"}}

\* _drop_item(self._hdfobj, name, 'dataframe')
dropDataFrame(f, name) ==
    IF <<GroupName(name)>> \notin DOMAIN f THEN Result(f, "LookupError", None)
    ELSE Result(Delete(f, <<GroupName(name)>>), None, None)

FrameNames == {"testframe1", "testframe2"}

ColumnNames == {"Time", "ID"}

\* Columns of MaxLen rows: of timestamps, of texts, of texts that have the
\* form of TIMEFMT (all of them, or the first only), and of numbers.
Columns ==
    {[i \in 1 .. MaxLen |-> Cell("Timestamp", "t1900")],
     [i \in 1 .. MaxLen |-> Cell("str", "thing1")],
     [i \in 1 .. MaxLen |-> Cell("str", strftime("t2000"))],
     [i \in 1 .. MaxLen |->
         Cell("str", IF i = 1 THEN strftime("t2000") ELSE "thing2")],
     [i \in 1 .. MaxLen |-> Cell("float", "12.34")]}

DataFrames == [ColumnNames -> Columns]

Call_setDataFrame ==
    \E name \in FrameNames, dataframe \in DataFrames :
        LET r == setDataFrame(hdfobj, name, dataframe)
        IN  hdfobj' = r.f /\ last' = Called("setDataFrame", <<name>>, r)

Call_getDataFrame ==
    \E name \in FrameNames :
        LET r == getDataFrame(hdfobj, name)
        IN  hdfobj' = r.f /\ last' = Called("getDataFrame", <<name>>, r)

Call_getDataFrames ==
    /\ last' = Called("getDataFrames", <<>>,
                      Result(hdfobj, None, getDataFrames(hdfobj)))
    /\ UNCHANGED hdfobj

Call_dropDataFrame ==
    \E name \in FrameNames :
        LET r == dropDataFrame(hdfobj, name)
        IN  hdfobj' = r.f /\ last' = Called("dropDataFrame", <<name>>, r)

NextFrames ==
    \/ Call_setDataFrame
    \/ Call_getDataFrame
    \/ Call_getDataFrames
    \/ Call_dropDataFrame

SpecFrames == Init /\ [][NextFrames]_vars

---------------------------------------------------------------------------
(* What the claims speak of. *)

ValidTypes == {"grid", "points"}

\* The persisted data type: "grid", "points" or None.
DataTypeOf(f) == getDataType(f).ret

\* Everything stored under the arrays category.
ArraysOf(f) == [p \in {q \in DOMAIN f : q[1] = "arrays"} |-> f[p]]

\* Everything stored under arrays/imts/{component}/{imt_name}.
RecordAt(f, component, imt_name) ==
    [p \in {q \in DOMAIN f : IsPrefix(ImtsGroup \o <<component, imt_name>>, q)}
       |-> f[p]]

\* The record (component, imt_name) can be read back, as grids or as arrays.
Stored(f, component, imt_name) ==
    \/ getIMTGrids(f, imt_name, component).exc = None
    \/ getIMTArrays(f, imt_name, component).exc = None

SameShapes(in) ==
    /\ Shape(in.lons) = Shape(in.lats)
    /\ Shape(in.lons) = Shape(in.ids)
    /\ Shape(in.lons) = Shape(in.imt_mean)
    /\ Shape(in.lons) = Shape(in.imt_std)

WriteGrids(f, imt_name, component, in) ==
    setIMTGrids(f, imt_name, in.imt_mean, in.mean_metadata,
                in.imt_std, in.std_metadata, component)

WriteArrays(f, imt_name, component, in) ==
    setIMTArrays(f, imt_name, in.lons, in.lats, in.ids, in.imt_mean,
                 in.mean_metadata, in.imt_std, in.std_metadata, component)

---------------------------------------------------------------------------
\* C1: once getDataType() has returned 'grid' or 'points', no later call
\* (dropDictionary and setDictionary of the path-addressed API included)
\* makes it return anything else.
C1_DataTypeIsTerminal ==
    [][DataTypeOf(hdfobj) \in ValidTypes
         => DataTypeOf(hdfobj') = DataTypeOf(hdfobj)]_vars

\* C2: setDataType(kind) on an unset type persists a valid kind; on the same
\* kind it succeeds and changes nothing; on the other kind it raises
\* TypeError and the type stays; an invalid kind fails and the type stays.
\* getDataType() returns None on a container nothing was written to.
C2_SetDataType ==
    /\ \A kind \in DataTypes :
         LET before == DataTypeOf(hdfobj)
             r == setDataType(hdfobj, kind)
             after == DataTypeOf(r.f)
         IN  /\ (before = None /\ kind \in ValidTypes)
                  => (r.exc = None /\ after = kind)
             /\ before = kind => (r.exc = None /\ r.f = hdfobj)
             /\ (before \in ValidTypes /\ kind \in ValidTypes /\ kind /= before)
                  => (r.exc = "TypeError" /\ after = before)
             /\ kind \notin ValidTypes => (r.exc /= None /\ after = before)
    /\ hdfobj = <<>> => getDataType(hdfobj) = Result(hdfobj, None, None)

C2_Witness ==
    /\ last.op = "setDataType"
    /\ last.args = <<"points">>
    /\ last.exc = "TypeError"
    /\ DataTypeOf(hdfobj) = "grid"

\* C3: setIMTArrays on a file of grids and setIMTGrids on a file of points
\* raise TypeError and leave the whole file as it was.
C3_OppositeWriteRejected ==
    \A imt_name \in IMTNames, component \in Components :
        /\ DataTypeOf(hdfobj) = "grid" =>
             \A in \in PointsInputs :
                 LET r == WriteArrays(hdfobj, imt_name, component, in)
                 IN  r.exc = "TypeError" /\ r.f = hdfobj
        /\ DataTypeOf(hdfobj) = "points" =>
             \A in \in GridInputs :
                 LET r == WriteGrids(hdfobj, imt_name, component, in)
                 IN  r.exc = "TypeError" /\ r.f = hdfobj

C3_Witness ==
    /\ last.op = "setIMTGrids"
    /\ last.exc = "TypeError"
    /\ DataTypeOf(hdfobj) = "points"
    /\ getIMTs(hdfobj, None).ret /= {}

\* C4, as stated (Points mode: the file is not of grids): setIMTArrays
\* succeeds only with five arrays of one shape; with any other input it
\* raises ValueError and none of lons, lats, ids, mean, std exists under
\* arrays/imts/{component}/{imt} afterwards.
C4_MismatchLeavesNoArrays ==
    [][(last'.op = "setIMTArrays" /\ DataTypeOf(hdfobj) /= "grid") =>
         \A in \in PointsInputs :
             LET imt_name == last'.args[1]
                 component == last'.args[2]
                 r == WriteArrays(hdfobj, imt_name, component, in)
             IN  (hdfobj' = r.f /\ last'.exc = r.exc) =>
                   /\ r.exc = None => SameShapes(in)
                   /\ ~SameShapes(in) =>
                        /\ r.exc = "ValueError"
                        /\ \A name \in Roles :
                             ~Contains(hdfobj',
                                       ImtsGroup \o <<component, imt_name>>,
                                       name)]_vars

\* C4, amended: setIMTArrays succeeds only with five arrays of one shape;
\* with any other input, on a file that is not of grids, it raises
\* ValueError and creates no array: what is stored under arrays is the same
\* after the call as before it.
C4_MismatchCreatesNoArrays ==
    \A imt_name \in IMTNames, component \in Components, in \in PointsInputs :
        LET r == WriteArrays(hdfobj, imt_name, component, in)
        IN  /\ r.exc = None => SameShapes(in)
            /\ (~SameShapes(in) /\ DataTypeOf(hdfobj) /= "grid") =>
                 (r.exc = "ValueError" /\ ArraysOf(r.f) = ArraysOf(hdfobj))

\* A mismatched write was refused on a record that is stored.
C4_Witness ==
    /\ last.op = "setIMTArrays"
    /\ last.exc = "ValueError"
    /\ getIMTArrays(hdfobj, last.args[1], last.args[2]).exc = None

\* C5: a setIMTArrays call that raises ValueError leaves the file as it was:
\* the data type, getDictionaries() and getArrays() are unchanged, and on a
\* file whose type was unset a following setIMTGrids is accepted.
C5_MismatchLeavesFile ==
    [][(last'.op = "setIMTArrays" /\ last'.exc = "ValueError") =>
         /\ DataTypeOf(hdfobj') = DataTypeOf(hdfobj)
         /\ getDictionaries(hdfobj') = getDictionaries(hdfobj)
         /\ getArrays(hdfobj') = getArrays(hdfobj)
         /\ DataTypeOf(hdfobj) = None =>
              \A imt_name \in IMTNames, component \in Components,
                 in \in GridInputs :
                  WriteGrids(hdfobj', imt_name, component, in).exc = None]_vars

\* C6: getIMTGrids raises TypeError unless the type is 'grid', getIMTArrays
\* raises TypeError unless the type is 'points' (both raise on an unset
\* type), and neither changes the file.
C6_ReadsGated ==
    \A imt_name \in IMTNames, component \in Components :
        LET g == getIMTGrids(hdfobj, imt_name, component)
            a == getIMTArrays(hdfobj, imt_name, component)
        IN  /\ DataTypeOf(hdfobj) /= "grid" => g.exc = "TypeError"
            /\ DataTypeOf(hdfobj) /= "points" => a.exc = "TypeError"
            /\ g.f = hdfobj
            /\ a.f = hdfobj

C6_Witness ==
    /\ last.op = "getIMTGrids"
    /\ last.exc = "TypeError"
    /\ DataTypeOf(hdfobj) = None

\* C7: a setIMTGrids that succeeds on a file of unset type or of grids makes
\* the type 'grid', and getIMTGrids returns the four items as written; a
\* setIMTArrays that succeeds on a file of unset type or of points makes the
\* type 'points', and getIMTArrays returns the seven items as written.
C7_WriteThenRead ==
    \A imt_name \in IMTNames, component \in Components :
        /\ \A in \in GridInputs :
             LET r == WriteGrids(hdfobj, imt_name, component, in)
                 g == getIMTGrids(r.f, imt_name, component)
             IN  (DataTypeOf(hdfobj) \in {None, "grid"} /\ r.exc = None) =>
                   /\ DataTypeOf(r.f) = "grid"
                   /\ g.exc = None
                   /\ g.ret = [mean |-> in.imt_mean,
                               mean_metadata |-> in.mean_metadata,
                               std |-> in.imt_std,
                               std_metadata |-> in.std_metadata]
        /\ \A in \in PointsInputs :
             LET r == WriteArrays(hdfobj, imt_name, component, in)
                 a == getIMTArrays(r.f, imt_name, component)
             IN  (DataTypeOf(hdfobj) \in {None, "points"} /\ r.exc = None) =>
                   /\ DataTypeOf(r.f) = "points"
                   /\ a.exc = None
                   /\ a.ret = [lons |-> in.lons, lats |-> in.lats,
                               ids |-> in.ids, mean |-> in.imt_mean,
                               mean_metadata |-> in.mean_metadata,
                               std |-> in.imt_std,
                               std_metadata |-> in.std_metadata]

C7_Witness ==
    /\ last.op = "setIMTArrays"
    /\ last.exc = None
    /\ DataTypeOf(hdfobj) = "points"
    /\ getIMTArrays(hdfobj, last.args[1], last.args[2]).exc = None

\* C8: when arrays/imts exists, dropIMT(imt) leaves imt in no component:
\* getComponents(imt) is empty and no getIMTs(c) holds imt; every record of
\* another IMT and the data type are unchanged.
C8_DropFromEveryComponent ==
    HasImts(hdfobj) =>
      \A imt_name \in IMTNames :
          LET r == dropIMT(hdfobj, imt_name)
          IN  /\ r.exc = None
              /\ getComponents(r.f, imt_name).ret = {}
              /\ \A c \in Components :
                    LET g == getIMTs(r.f, c)
                    IN  g.exc = None => imt_name \notin g.ret
              /\ \A c \in Components, imt2 \in IMTNames \ {imt_name} :
                    RecordAt(r.f, c, imt2) = RecordAt(hdfobj, c, imt2)
              /\ getDataType(r.f).ret = getDataType(hdfobj).ret

\* dropIMT("pga") has left both components without it, and "mmi" stored.
C8_Witness ==
    /\ last.op = "dropIMT"
    /\ last.args = <<"pga">>
    /\ last.exc = None
    /\ getComponents(hdfobj, None).ret = {"A", "B"}
    /\ getIMTs(hdfobj, None).ret = {<<"A", "mmi">>}
    /\ Stored(hdfobj, "A", "mmi")

\* C9: dropIMT raises LookupError exactly when arrays/imts does not exist,
\* and then changes nothing; when arrays/imts exists it succeeds, and
\* changes nothing when no component holds the IMT.
C9_DropNotFound ==
    \A imt_name \in IMTNames :
        LET r == dropIMT(hdfobj, imt_name)
        IN  /\ (r.exc = "LookupError") = (ImtsGroup \notin DOMAIN hdfobj)
            /\ r.exc = "LookupError" => r.f = hdfobj
            /\ ImtsGroup \in DOMAIN hdfobj => r.exc = None
            /\ (\A c \in Components : ~Stored(hdfobj, c, imt_name)) =>
                 r.f = hdfobj

\* dropIMT of an IMT that no component holds has succeeded.
C9_Witness ==
    /\ last.op = "dropIMT"
    /\ last.args = <<"mmi">>
    /\ last.exc = None
    /\ getIMTs(hdfobj, None).ret = {<<"A", "pga">>, <<"B", "pga">>}

\* C10: getIMTs() returns component/imt for exactly the stored records;
\* getIMTs(c) returns exactly the IMTs stored under component c, for every
\* component c; getComponents(imt) returns exactly the components that store
\* imt; all return empty, without raising, when arrays/imts was never
\* created.
C10_IndexMatchesRecords ==
    /\ getIMTs(hdfobj, None).exc = None
    /\ getIMTs(hdfobj, None).ret =
         {ci \in Components \X IMTNames : Stored(hdfobj, ci[1], ci[2])}
    /\ \A c \in Components :
         /\ getIMTs(hdfobj, c).exc = None
         /\ getIMTs(hdfobj, c).ret =
              {imt_name \in IMTNames : Stored(hdfobj, c, imt_name)}
    /\ \A imt_name \in IMTNames :
         /\ getComponents(hdfobj, imt_name).exc = None
         /\ getComponents(hdfobj, imt_name).ret =
              {c \in Components : Stored(hdfobj, c, imt_name)}
    /\ ImtsGroup \notin DOMAIN hdfobj =>
         /\ \A c \in Components \cup {None} :
              getIMTs(hdfobj, c) = Result(hdfobj, None, {})
         /\ \A imt_name \in IMTNames \cup {None} :
              getComponents(hdfobj, imt_name) = Result(hdfobj, None, {})

---------------------------------------------------------------------------
\* The outcome of setting slot name to the dictionary v, and of getting it.
SetSlot(f, name, v) ==
    CASE name = "config" -> setConfig(f, v)
      [] name = "rupture" -> setRuptureDict(f, PyDict(v))
      [] name = "stations_dict" -> setStationDict(f, PyDict(v))
      [] name = "version_history" -> setVersionHistory(f, v)
      [] name = "info.json" -> setMetadata(f, v)

GetSlot(f, name) ==
    CASE name = "config" -> getConfig(f)
      [] name = "rupture" -> getRuptureDict(f)
      [] name = "stations_dict" -> getStationDict(f)
      [] name = "version_history" -> getVersionHistory(f)
      [] name = "info.json" -> getMetadata(f)

\* C11: for config, rupture, stations, version history and metadata, the
\* setter called with a dictionary v2 succeeds whether or not a value is
\* stored, the getter then returns v2, and getDictionaries() holds the name
\* of the slot exactly once.
C11_SettersReplace ==
    \A name \in SlotNames, v2 \in SlotValues :
        LET r == SetSlot(hdfobj, name, v2)
        IN  /\ r.exc = None
            /\ GetSlot(r.f, name) = Result(r.f, None, v2)
            /\ CopiesIn(<<name>>, getDictionaries(r.f)) = 1

\* setConfig has replaced a configuration, and the one stored now is
\* replaced in turn by the other value.
C11_Witness ==
    /\ last.op = "setConfig"
    /\ last.exc = None
    /\ getConfig(hdfobj).ret = {<<"", "test1">>}
    /\ \A name \in SlotNames : GetSlot(hdfobj, name).exc = None

C13_RuptureTestedFirst ==
    [][(last'.op = "setRuptureDict" /\ last'.args = <<"str">>) =>
         /\ last'.exc = "TypeError"
         /\ hdfobj' = hdfobj
         /\ getRuptureDict(hdfobj') = getRuptureDict(hdfobj)]_vars

\* C14: setStationDict of a value that is not a dict raises TypeError and
\* leaves the file as it was: a station dictionary stored earlier is still
\* returned by getStationDict().
C14_StationTestedFirst ==
    LET r == setStationDict(hdfobj, PyStr)
    IN  /\ r.exc = "TypeError"
        /\ r.f = hdfobj
        /\ getStationDict(r.f) = getStationDict(hdfobj)

\* setStationDict of a str was refused with a station dictionary stored.
C14_Witness ==
    /\ last.op = "setStationDict"
    /\ last.args = <<"str">>
    /\ last.exc = "TypeError"
    /\ getStationDict(hdfobj).exc = None

---------------------------------------------------------------------------
\* LookupError and its subclass KeyError.
NotFound == {"LookupError", "KeyError"}

Categories == {"dictionaries", "strings", "arrays"}

\* get, drop and list of a category.
GetEntry(f, category, groups, name) ==
    CASE category = "dictionaries" -> getDictionary(f, groups, name)
      [] category = "strings" -> getString(f, groups, name)
      [] category = "arrays" -> getArray(f, groups, name)

DropEntry(f, category, groups, name) ==
    CASE category = "dictionaries" -> dropDictionary(f, groups, name)
      [] category = "strings" -> dropString(f, groups, name)
      [] category = "arrays" -> dropArray(f, groups, name)

ListEntries(f, category) ==
    CASE category = "dictionaries" -> getDictionaries(f)
      [] category = "strings" -> getStrings(f)
      [] category = "arrays" -> getArrays(f)

\* The paths groups/name of the entries (datasets) stored in a category.
EntriesOf(f, category) ==
    {Tail(p) : p \in {q \in DOMAIN f :
                        /\ Len(q) > 1
                        /\ q[1] = category
                        /\ f[q].kind = "dataset"}}

\* C15: setArray on a path that holds an array raises LookupError, and
\* getArray returns the same data and metadata after the call as before.
C15_DuplicateArray ==
    \A groups \in EntryGroups, name \in EntryNames, array \in EntryArrays :
        LET before == getArray(hdfobj, groups, name)
            r == setArray(hdfobj, groups, name, array, EntryMetadata)
        IN  before.exc = None =>
              /\ r.exc = "LookupError"
              /\ getArray(r.f, groups, name).exc = None
              /\ getArray(r.f, groups, name).ret = before.ret

\* A second setArray under group g was refused, the first array is stored.
C15_Witness ==
    /\ last.op = "setArray"
    /\ last.args = <<<<"g">>, "a">>
    /\ last.exc = "LookupError"
    /\ getArray(hdfobj, <<"g">>, "a").ret = <<(<<3>>), EntryMetadata>>

\* C16: setDictionary and setString on a path that holds a leaf raise
\* instead of overwriting, and the get returns the value stored before.
C16_DuplicateDictionaryOrString ==
    \A groups \in EntryGroups, name \in EntryNames :
        /\ \A dictionary \in EntryDictionaries \cup InvalidDictionaries :
             LET before == getDictionary(hdfobj, groups, name)
                 r == setDictionary(hdfobj, groups, name, dictionary)
             IN  before.exc = None =>
                   /\ r.exc /= None
                   /\ getDictionary(r.f, groups, name).exc = None
                   /\ getDictionary(r.f, groups, name).ret = before.ret
        /\ \A instring \in EntryStrings :
             LET before == getString(hdfobj, groups, name)
                 r == setString(hdfobj, groups, name, instring)
             IN  before.exc = None =>
                   /\ r.exc /= None
                   /\ getString(r.f, groups, name).exc = None
                   /\ getString(r.f, groups, name).ret = before.ret

\* A second setString was refused, the first string is stored.
C16_Witness ==
    /\ last.op = "setString"
    /\ last.args = <<<<>>, "a">>
    /\ last.exc = "ValueError"
    /\ getString(hdfobj, <<>>, "a").ret = "s1"

\* C17: get and drop of a dictionary, a string or an array raise LookupError
\* when the group of the category, a group of groups or the name is not in
\* the file, and leave the file as it was.
C17_AbsentEntry ==
    \A category \in Categories, groups \in ProbeGroups,
       name \in EntryNames \cup {"invalid"} :
        (<<category>> \o groups \o <<name>>) \notin DOMAIN hdfobj =>
            LET g == GetEntry(hdfobj, category, groups, name)
                d == DropEntry(hdfobj, category, groups, name)
            IN  /\ g.exc \in NotFound
                /\ g.f = hdfobj
                /\ d.exc \in NotFound
                /\ d.f = hdfobj

\* dropArray of a name that group g does not hold has failed.
C17_Witness ==
    /\ last.op = "dropArray"
    /\ last.args = <<<<"g">>, "a">>
    /\ last.exc = "KeyError"
    /\ <<"arrays", "g">> \in DOMAIN hdfobj
    /\ getArray(hdfobj, <<>>, "a").exc = None

\* C18: on the container just created, getDictionaries(), getArrays() and
\* getStrings() return the empty list.
C18_FreshListsEmpty ==
    hdfobj = <<>> =>
        /\ getDictionaries(hdfobj) = EmptyBag
        /\ getArrays(hdfobj) = EmptyBag
        /\ getStrings(hdfobj) = EmptyBag

\* getStrings() has returned on the container just created.
C18_Witness ==
    /\ last.op = "getStrings"
    /\ last.exc = None
    /\ hdfobj = <<>>
    /\ BagCardinality(last.ret) = 0

\* C19: getDictionaries(), getStrings() and getArrays() list exactly the
\* paths groups/name of the entries stored in the category, each once; a
\* group that holds no entry adds no path.
C19_ListsOnlyEntries ==
    \A category \in Categories :
        ListEntries(hdfobj, category) = SetToBag(EntriesOf(hdfobj, category))

\* The entries stored in a category, each with its data and attributes.
StoredIn(f, category) ==
    [p \in EntriesOf(f, category) |-> f[<<category>> \o p]]

\* C20: a setDictionary that raises TypeError on a value json cannot encode
\* writes nothing, whatever the groups: getDictionaries() and every stored
\* entry are the same after the call as before it.
C20_InvalidValueWritesNothing ==
    [][(last'.op = "setDictionary" /\ last'.exc = "TypeError") =>
         /\ getDictionaries(hdfobj') = getDictionaries(hdfobj)
         /\ \A category \in Categories :
               StoredIn(hdfobj', category) = StoredIn(hdfobj, category)]_vars

---------------------------------------------------------------------------
\* C21: a setter of config, rupture, stations, version history or metadata
\* that fails on a value json cannot encode leaves the slot as it was: the
\* getter returns the same after the failed call as before it.
C21_FailedSetterKeepsValue ==
    \A name \in SlotNames, v \in InvalidDictionaries :
        LET r == SetSlot(hdfobj, name, v)
        IN  /\ r.exc /= None
            /\ GetSlot(r.f, name).exc = GetSlot(hdfobj, name).exc
            /\ GetSlot(r.f, name).ret = GetSlot(hdfobj, name).ret

---------------------------------------------------------------------------
\* C26: the data type is persisted as arrays/file_data_type holding
\* {"type": kind}; once it is set, directly or by the first IMT write, the
\* dictionaries category has no entry for it.
C26_LockUnderArrays ==
    DataTypeOf(hdfobj) \in ValidTypes =>
        /\ <<"arrays", "file_data_type">> \in DOMAIN hdfobj
        /\ hdfobj[<<"arrays", "file_data_type">>].data
             = JsonDumps({<<"type", DataTypeOf(hdfobj)>>})
        /\ ~BagIn(<<"file_data_type">>, getDictionaries(hdfobj).ret)

\* C30: getIMTs(component) of a component under which no IMT was ever
\* written returns empty without raising, when arrays/imts was never created
\* and when arrays/imts already holds other components.
C30_UnknownComponentIsEmpty ==
    \A c \in Components :
        (~HasImts(hdfobj) \/ ~Contains(hdfobj, ImtsGroup, c)) =>
            /\ getIMTs(hdfobj, c).exc = None
            /\ getIMTs(hdfobj, c).ret = {}

\* The group of the record (component, imt_name).
RecordGroup(component, imt_name) == ImtsGroup \o <<component, imt_name>>

\* C27: in every state the schema layer reaches, failed calls included, a
\* stored record has the representation of the data type: exactly mean and
\* std in a file of grids, exactly lons, lats, ids, mean and std, of one
\* shape, in a file of points; no record is stored while no data type is set.
C27_OneRepresentation ==
    \A c \in Components, imt_name \in IMTNames :
        LET p == RecordGroup(c, imt_name)
            ShapeOf(name) == Shape(hdfobj[Append(p, name)].data)
        IN  p \in DOMAIN hdfobj =>
              /\ DataTypeOf(hdfobj) \in ValidTypes
              /\ DataTypeOf(hdfobj) = "grid" =>
                    /\ Keys(hdfobj, p) = {"mean", "std"}
                    /\ getIMTGrids(hdfobj, imt_name, c).exc = None
              /\ DataTypeOf(hdfobj) = "points" =>
                    /\ Keys(hdfobj, p) = Roles
                    /\ \A name \in Roles : ShapeOf(name) = ShapeOf("lons")
                    /\ getIMTArrays(hdfobj, imt_name, c).exc = None

\* A setIMTArrays with arrays of two shapes has failed in a file of points
\* that stores a record.
C27_Witness ==
    /\ last.op = "setIMTArrays"
    /\ last.exc = "ValueError"
    /\ DataTypeOf(hdfobj) = "points"
    /\ RecordGroup("A", "pga") \in DOMAIN hdfobj
    /\ RecordGroup("B", "pga") \notin DOMAIN hdfobj

\* C28: a setIMTGrids or setIMTArrays for a (component, imt) that holds a
\* record fails and changes nothing in the file; the call that the data
\* type and the shapes allow fails with the LookupError of setArray; after
\* dropIMT the same call succeeds.
C28_RecordsCreateOnce ==
    \A c \in Components, imt_name \in IMTNames :
        RecordGroup(c, imt_name) \in DOMAIN hdfobj =>
          /\ \A in \in GridInputs :
                LET r == WriteGrids(hdfobj, imt_name, c, in)
                    d == dropIMT(hdfobj, imt_name)
                IN  /\ r.exc /= None
                    /\ r.f = hdfobj
                    /\ DataTypeOf(hdfobj) = "grid" =>
                          /\ r.exc = "LookupError"
                          /\ WriteGrids(d.f, imt_name, c, in).exc = None
          /\ \A in \in PointsInputs :
                LET r == WriteArrays(hdfobj, imt_name, c, in)
                    d == dropIMT(hdfobj, imt_name)
                IN  /\ r.exc /= None
                    /\ r.f = hdfobj
                    /\ (DataTypeOf(hdfobj) = "points" /\ SameShapes(in)) =>
                          /\ r.exc = "LookupError"
                          /\ WriteArrays(d.f, imt_name, c, in).exc = None

\* A second setIMTGrids of a stored record has raised LookupError.
C28_Witness ==
    /\ last.op = "setIMTGrids"
    /\ last.args = <<"pga", "A">>
    /\ last.exc = "LookupError"
    /\ Stored(hdfobj, "A", "pga")

\* C29: no call removes a component: getComponents() after a dropIMT, a
\* setIMTGrids or a setIMTArrays holds every component it held before, and
\* getIMTs of each component it returns succeeds, with an empty result for a
\* component whose IMTs were all dropped.
C29_ComponentsStay ==
    LET before == getComponents(hdfobj, None).ret
        Kept(r) == before \subseteq getComponents(r.f, None).ret
    IN  /\ \A c \in before :
              /\ getIMTs(hdfobj, c).exc = None
              /\ getIMTs(hdfobj, c).ret =
                   {imt_name \in IMTNames : Stored(hdfobj, c, imt_name)}
        /\ \A imt_name \in IMTNames :
              /\ getComponents(dropIMT(hdfobj, imt_name).f, None).ret = before
              /\ \A c \in Components :
                    /\ \A in \in GridInputs :
                          Kept(WriteGrids(hdfobj, imt_name, c, in))
                    /\ \A in \in PointsInputs :
                          Kept(WriteArrays(hdfobj, imt_name, c, in))

\* dropIMT has emptied component "A", which getComponents() still returns.
C29_Witness ==
    /\ last.op = "dropIMT"
    /\ last.exc = None
    /\ getComponents(hdfobj, None).ret = {"A"}
    /\ getIMTs(hdfobj, "A").exc = None
    /\ getIMTs(hdfobj, "A").ret = {}

---------------------------------------------------------------------------
\* The values of a category: dictionaries, strings, and arrays with their
\* metadata (none included).
EntryValues(category) ==
    CASE category = "dictionaries" -> EntryDictionaries
      [] category = "strings" -> EntryStrings
      [] category = "arrays" ->
           {<<array, EntryMetadata>> : array \in EntryArrays}
             \cup {<<(<<3>>), {}>>}

\* set of a category.
SetEntry(f, category, groups, name, v) ==
    CASE category = "dictionaries" -> setDictionary(f, groups, name, v)
      [] category = "strings" -> setString(f, groups, name, v)
      [] category = "arrays" -> setArray(f, groups, name, v[1], v[2])

---------------------------------------------------------------------------
\* Two calls raise the same or return the same.
SameResult(r1, r2) == r1.exc = r2.exc /\ r1.ret = r2.ret

C23_UseAfterCloseRaises ==
    [][(IsClosed(hdfobj) /\ last'.op \notin {"close", "load"}) =>
         /\ last'.exc /= None
         /\ hdfobj' = hdfobj]_vars

---------------------------------------------------------------------------
\* C25: setDataFrame followed by getDataFrame returns the table that was
\* stored, with the same columns, values and column types: a column of
\* timestamps as timestamps, a column of texts as texts even when the texts
\* have the form of the timestamp format.
C25_FrameRoundTrip ==
    \A name \in FrameNames, dataframe \in DataFrames :
        <<GroupName(name)>> \notin DOMAIN hdfobj =>
            LET r == setDataFrame(hdfobj, name, dataframe)
            IN  /\ r.exc = None
                /\ getDataFrame(r.f, name).exc = None
                /\ getDataFrame(r.f, name).ret = dataframe

====
